---- MODULE Spec2Model ----
(***************************************************************************)
(* Model of src/src/jennytest.cpp: an Arduino sketch that, on a            *)
(* cooperative tick (my_homekit_loop), republishes a DHT temperature /     *)
(* humidity reading and an occupancy pin as HomeKit characteristics every  *)
(* REPORTING_TIME_MS and logs heap diagnostics on a second deadline.       *)
(*                                                                         *)
(* One tick is three steps, in the order of the source:                    *)
(*   Poll  (lines 98-99)    arduino_homekit_loop(); t = millis()           *)
(*   report gate (100-104)  ReportFire / ReportSkip                        *)
(*   heap gate   (105-111)  HeapFire / HeapSkip                            *)
(***************************************************************************)
EXTENDS Integers, Sequences, FiniteSets, TLC

(***************************************************************************)
(* uint32_t arithmetic.  A uint32_t is kept as two 16-bit halves           *)
(* [hi, lo] denoting hi * 2^16 + lo, so that the full 32-bit width and     *)
(* its wrap at 2^32 are exact.                                             *)
(***************************************************************************)
Half == 65536

U32(h, l) == [hi |-> h, lo |-> l]

\* a + n in uint32_t arithmetic (n a non-negative int below 2^31 - 2^16)
U32Add(a, n) ==
  LET s == a.lo + n
  IN  U32((a.hi + (s \div Half)) % Half, s % Half)

\* a > b on uint32_t
U32Gt(a, b) == \/ a.hi > b.hi
               \/ (a.hi = b.hi /\ a.lo > b.lo)

(***************************************************************************)
(* float values: either NaN or a number (whole degrees / percent, the      *)
(* resolution of the DHT11 the sketch selects).                            *)
(***************************************************************************)
Float(x) == [nan |-> FALSE, v |-> x]

NaN == [nan |-> TRUE, v |-> 0]

isnan(f) == f.nan

\* f - c in float arithmetic: NaN propagates
FloatSub(f, c) == IF isnan(f) THEN NaN ELSE Float(f.v - c)

(***************************************************************************)
(* homekit_value_t: a tagged union.                                        *)
(***************************************************************************)
NoValue == [format |-> "none", float_value |-> Float(0), bool_value |-> FALSE]

FloatValue(f) == [format |-> "float", float_value |-> f, bool_value |-> FALSE]

BoolValue(b) == [format |-> "bool", float_value |-> Float(0), bool_value |-> b]

(***************************************************************************)
(* Program constants.                                                      *)
(***************************************************************************)
REPORTING_TIME_MS == 2 * 1000

SHOW_HEAP_MS == 10 * 1000

HIGH == 1

LOW == 0

(***************************************************************************)
(* Bounds of the model.                                                    *)
(***************************************************************************)
\* number of ticks explored by Spec
MaxTicks == 3

\* elapsed-time observers saturate here
GapCap == 12000

\* the count of consecutive failed reports saturates here
FaultCap == 2

\* milliseconds between two consecutive samples of millis(): delay(10) plus
\* whatever the tick and arduino_homekit_loop() took
TickGaps == {10, 2000, 4000, 5001}

\* value of millis() when setup() returns (wifi_connect() waits for the
\* network for an unbounded time)
BootClocks == {U32(0, 0), U32(Half - 1, Half - 10), U32(Half - 1, Half - 1000)}

\* raw sensor readings offered by the driver
RawTemps == {NaN, Float(21), Float(24)}

RawHums == {NaN, Float(40)}

PinLevels == {LOW, HIGH}

\* A clock schedule for LiveSpec under which the clock cycles through eight
\* values, k * 2^30 - 2001 and k * 2^30 - 1001: from a value of the first
\* kind the next sample comes 1000 ms or 2^30 ms later, from one of the
\* second kind 2^30 - 1000 ms later.  Every window of REPORTING_TIME_MS
\* before the wrap (it holds 2^32 - 1001) is sampled once per cycle.
Quarter == 16384 * Half

LiveTickGaps(m) == IF m.lo = Half - 2001 THEN {1000, Quarter}
                                         ELSE {Quarter - 1000}

LiveBootClocks == {U32(16384 - 1, Half - 2001)}

VARIABLES
  millis,                  \* platform clock at the latest sample (t)
  next_heap_millis,
  next_report_millis,
  cha_temperature,         \* cha_temperature.value.float_value
  cha_humidity,            \* cha_humidity.value.float_value
  cha_occupancy_detected,  \* cha_occupancy_detected.value.bool_value
  D0,                      \* level of the output pin D0
  pc,                      \* position inside my_homekit_loop
  events,                  \* external calls made so far by the current tick
  \* observers (not program state)
  ticks,                   \* ticks started, saturating at MaxTicks
  reportFired,             \* the report gate fired in the current tick
  heapFired,               \* the heap gate fired in the current tick
  sinceReport,             \* ms from the latest report to the latest sample
  sinceHeap,               \* ms from the latest heap log to the latest sample
  reportGap,               \* ms between the latest two reports
  heapGap,                 \* ms between the latest two heap logs
  lastIn,                  \* raw inputs of the latest report
  lastNotifies,            \* notify calls of the latest report
  repeatIn,                \* latest report had the inputs of the one before
  lastValid,               \* raw temperature of the latest valid report
  due,                     \* which deadlines had elapsed at the latest sample
  faultRun,                \* consecutive failed reports up to the latest one
  faultsBefore             \* faultRun as it was before the latest report

vars == <<millis, next_heap_millis, next_report_millis, cha_temperature,
          cha_humidity, cha_occupancy_detected, D0, pc, events, ticks,
          reportFired, heapFired, sinceReport, sinceHeap, reportGap, heapGap,
          lastIn, lastNotifies, repeatIn, lastValid, due, faultRun,
          faultsBefore>>

chars == <<cha_temperature, cha_humidity, cha_occupancy_detected>>

observers == <<ticks, reportFired, heapFired, sinceReport, sinceHeap,
               reportGap, heapGap, lastIn, lastNotifies, repeatIn, lastValid,
               due, faultRun, faultsBefore>>

\* "no such event yet" for the elapsed-time observers
Never == 0 - 1

Min(a, b) == IF a < b THEN a ELSE b

Event(o, a, v) == [op |-> o, arg |-> a, val |-> v]

IsNotify(e) == e.op = "homekit_characteristic_notify"

IsWrite(e) == e.op = "assign"

Notifies(evs) == SelectSeq(evs, IsNotify)

(***************************************************************************)
(* my_homekit_report, lines 114-140.  It works on a record s of the        *)
(* characteristic values and the level of D0; each part yields the state   *)
(* it leaves and the calls it made, in order.                              *)
(***************************************************************************)
\* line 117: dht.getTemperature() - 3.0
Calibrated_Uncorrected(rawTemp) == rawTemp

Calibrated_Twice(rawTemp) == FloatSub(FloatSub(rawTemp, 3), 3)

Calibrated(rawTemp) == FloatSub(rawTemp, 3)

\* line 123: isnan(hum) || isnan(temp)
ReadFailed_Both(temp, hum) == isnan(hum) /\ isnan(temp)

ReadFailed_HumidityOnly(temp, hum) == isnan(hum)

ReadFailed_Latched(temp, hum) == isnan(hum) \/ isnan(temp) \/ faultRun > 0

ReadFailed(temp, hum) == isnan(hum) \/ isnan(temp)

\* lines 126-133: the else branch
PublishEnvironment_OnChange(s, temp, hum) ==
  LET s2 == [s EXCEPT !.cha_temperature = temp]
      s3 == [s2 EXCEPT !.cha_humidity = hum]
      nt == IF s.cha_temperature = temp THEN << >>
            ELSE << Event("homekit_characteristic_notify", "cha_temperature",
                          FloatValue(s2.cha_temperature)) >>
      nh == IF s.cha_humidity = hum THEN << >>
            ELSE << Event("homekit_characteristic_notify", "cha_humidity",
                          FloatValue(s3.cha_humidity)) >>
  IN  [s |-> s3,
       ev |-> << Event("assign", "cha_temperature", FloatValue(temp)) >> \o nt
              \o << Event("assign", "cha_humidity", FloatValue(hum)) >> \o nh
              \o << Event("LOG_D", "Temp (C)", FloatValue(temp)),
                    Event("LOG_D", "Hum (percent)", FloatValue(hum)) >>]

PublishEnvironment(s, temp, hum) ==
  LET s2 == [s EXCEPT !.cha_temperature = temp]
      s3 == [s2 EXCEPT !.cha_humidity = hum]
  IN  [s |-> s3,
       ev |-> << Event("assign", "cha_temperature", FloatValue(temp)),
                 Event("homekit_characteristic_notify", "cha_temperature",
                       FloatValue(s2.cha_temperature)),
                 Event("assign", "cha_humidity", FloatValue(hum)),
                 Event("homekit_characteristic_notify", "cha_humidity",
                       FloatValue(s3.cha_humidity)),
                 Event("LOG_D", "Temp (C)", FloatValue(temp)),
                 Event("LOG_D", "Hum (percent)", FloatValue(hum)) >>]

\* lines 136-138
PublishOccupancy_NotifyFirst(s, occupancy_sensor_value) ==
  LET s4 == [s EXCEPT !.cha_occupancy_detected = occupancy_sensor_value]
  IN  [s |-> s4,
       ev |-> << Event("homekit_characteristic_notify", "cha_occupancy_detected",
                       BoolValue(s.cha_occupancy_detected)),
                 Event("assign", "cha_occupancy_detected",
                       BoolValue(occupancy_sensor_value)),
                 Event("LOG_D", "Occupancy sensor is",
                       BoolValue(occupancy_sensor_value)) >>]

PublishOccupancy(s, occupancy_sensor_value) ==
  LET s4 == [s EXCEPT !.cha_occupancy_detected = occupancy_sensor_value]
  IN  [s |-> s4,
       ev |-> << Event("assign", "cha_occupancy_detected",
                       BoolValue(occupancy_sensor_value)),
                 Event("homekit_characteristic_notify", "cha_occupancy_detected",
                       BoolValue(s4.cha_occupancy_detected)),
                 Event("LOG_D", "Occupancy sensor is",
                       BoolValue(occupancy_sensor_value)) >>]

\* line 121: occupancy_sensor_value ? HIGH : LOW
PinLevelFor_Inverted(occupancy_sensor_value) ==
  IF occupancy_sensor_value THEN LOW ELSE HIGH

PinLevelFor(occupancy_sensor_value) ==
  IF occupancy_sensor_value THEN HIGH ELSE LOW

my_homekit_report(st, rawTemp, rawHum, pin) ==
  LET temp == Calibrated(rawTemp)
      hum  == rawHum
      occupancy_sensor_value == (pin # 0)
      level == PinLevelFor(occupancy_sensor_value)
      reads == << Event("dht.getTemperature", "DHT", FloatValue(rawTemp)),
                  Event("dht.getHumidity", "DHT", FloatValue(rawHum)),
                  Event("digitalRead", "OCCUPANCY_SENSOR_PIN",
                        BoolValue(occupancy_sensor_value)),
                  Event("digitalWrite", "D0", BoolValue(level = HIGH)) >>
      s1 == [st EXCEPT !.D0 = level]
      env == IF ReadFailed(temp, hum)
             THEN [s |-> s1,
                   ev |-> << Event("Serial.println",
                                   "Failed to read from DHT sensor!", NoValue) >>]
             ELSE PublishEnvironment(s1, temp, hum)
      occ == PublishOccupancy(env.s, occupancy_sensor_value)
  IN  [s |-> occ.s, ev |-> reads \o env.ev \o occ.ev]

(***************************************************************************)
(* State after setup(): both deadlines 0 (lines 83-84); the                *)
(* characteristics are defined in my_accessory.c (extern, lines 79-81).    *)
(***************************************************************************)
InitAt(clocks) ==
  /\ millis \in clocks
  /\ next_heap_millis = U32(0, 0)
  /\ next_report_millis = U32(0, 0)
  /\ cha_temperature = Float(0)
  /\ cha_humidity = Float(0)
  /\ cha_occupancy_detected = FALSE
  /\ D0 = LOW
  /\ pc = "idle"
  /\ events = << >>
  /\ ticks = 0
  /\ reportFired = FALSE
  /\ heapFired = FALSE
  /\ sinceReport = Never
  /\ sinceHeap = Never
  /\ reportGap = Never
  /\ heapGap = Never
  /\ lastIn = [has |-> FALSE, temp |-> NaN, hum |-> NaN, pin |-> LOW]
  /\ lastNotifies = << >>
  /\ repeatIn = FALSE
  /\ lastValid = [has |-> FALSE, temp |-> NaN, hum |-> NaN]
  /\ due = [report |-> FALSE, heap |-> FALSE]
  /\ faultRun = 0
  /\ faultsBefore = 0

Init == InitAt(BootClocks)

\* the order of the statements of my_homekit_loop, lines 98-111
NextStep_HeapGateFirst(p) ==
  CASE p = "idle" -> "heap_gate"
    [] p = "heap_gate" -> "report_gate"
    [] p = "report_gate" -> "idle"

NextStep(p) ==
  CASE p = "idle" -> "report_gate"
    [] p = "report_gate" -> "heap_gate"
    [] p = "heap_gate" -> "idle"

Elapse(since, dt) == IF since = Never THEN Never ELSE Min(since + dt, GapCap)

\* lines 98-99: arduino_homekit_loop(); const uint32_t t = millis();
Poll(dt) ==
  /\ pc = "idle"
  /\ millis' = U32Add(millis, dt)
  /\ events' = << Event("arduino_homekit_loop", "", NoValue) >>
  /\ pc' = NextStep(pc)
  /\ ticks' = Min(ticks + 1, MaxTicks)
  /\ reportFired' = FALSE
  /\ heapFired' = FALSE
  /\ sinceReport' = Elapse(sinceReport, dt)
  /\ sinceHeap' = Elapse(sinceHeap, dt)
  /\ due' = [report |-> U32Gt(U32Add(millis, dt), next_report_millis),
             heap   |-> U32Gt(U32Add(millis, dt), next_heap_millis)]
  /\ UNCHANGED <<next_heap_millis, next_report_millis, chars, D0,
                 reportGap, heapGap, lastIn, lastNotifies, repeatIn, lastValid,
                 faultRun, faultsBefore>>

\* the condition of line 100
ReportDue_EitherDeadline(t) == \/ U32Gt(t, next_report_millis)
                               \/ U32Gt(t, next_heap_millis)

ReportDue_AtDeadline(t) == ~U32Gt(next_report_millis, t)

ReportDue(t) == U32Gt(t, next_report_millis)

\* the condition of line 105
HeapDue(t) == U32Gt(t, next_heap_millis)

\* lines 100-104, gate taken
ReportFire(rawTemp, rawHum, pin) ==
  /\ pc = "report_gate"
  /\ ReportDue(millis)
  /\ next_report_millis' = U32Add(millis, REPORTING_TIME_MS)
  /\ LET r == my_homekit_report([cha_temperature |-> cha_temperature,
                                 cha_humidity |-> cha_humidity,
                                 cha_occupancy_detected |-> cha_occupancy_detected,
                                 D0 |-> D0], rawTemp, rawHum, pin)
         in == [has |-> TRUE, temp |-> rawTemp, hum |-> rawHum, pin |-> pin]
     IN  /\ cha_temperature' = r.s.cha_temperature
         /\ cha_humidity' = r.s.cha_humidity
         /\ cha_occupancy_detected' = r.s.cha_occupancy_detected
         /\ D0' = r.s.D0
         /\ events' = events
                      \o << Event("assign", "next_report_millis", NoValue) >>
                      \o r.ev
         /\ lastIn' = in
         /\ repeatIn' = (lastIn = in)
         /\ lastNotifies' = Notifies(r.ev)
  /\ lastValid' = IF isnan(rawTemp) \/ isnan(rawHum)
                  THEN lastValid
                  ELSE [has |-> TRUE, temp |-> rawTemp, hum |-> rawHum]
  /\ faultRun' = IF isnan(rawTemp) \/ isnan(rawHum)
                 THEN Min(faultRun + 1, FaultCap)
                 ELSE 0
  /\ faultsBefore' = faultRun
  /\ reportFired' = TRUE
  /\ reportGap' = sinceReport
  /\ sinceReport' = 0
  /\ pc' = NextStep(pc)
  /\ UNCHANGED <<millis, next_heap_millis, ticks, heapFired, sinceHeap,
                 heapGap, due>>

\* line 100, gate not taken
ReportSkip ==
  /\ pc = "report_gate"
  /\ ~ReportDue(millis)
  /\ pc' = NextStep(pc)
  /\ UNCHANGED <<millis, next_heap_millis, next_report_millis, chars, D0,
                 events, observers>>

\* lines 105-111, gate taken
HeapFire_ResetsReport ==
  /\ pc = "heap_gate"
  /\ HeapDue(millis)
  /\ next_heap_millis' = U32Add(millis, 5 * 1000)
  /\ events' = events \o
       << Event("arduino_homekit_connected_clients_count", "", NoValue),
          Event("LOG_D", "Free heap", NoValue) >>
  /\ heapFired' = TRUE
  /\ heapGap' = sinceHeap
  /\ sinceHeap' = 0
  /\ pc' = NextStep(pc)
  /\ next_report_millis' = U32Add(millis, 5 * 1000)
  /\ UNCHANGED <<millis, chars, D0, ticks, reportFired,
                 sinceReport, reportGap, lastIn, lastNotifies, repeatIn,
                 lastValid, due, faultRun, faultsBefore>>

HeapFire ==
  /\ pc = "heap_gate"
  /\ HeapDue(millis)
  /\ next_heap_millis' = U32Add(millis, 5 * 1000)
  /\ events' = events \o
       << Event("arduino_homekit_connected_clients_count", "", NoValue),
          Event("LOG_D", "Free heap", NoValue) >>
  /\ heapFired' = TRUE
  /\ heapGap' = sinceHeap
  /\ sinceHeap' = 0
  /\ pc' = NextStep(pc)
  /\ UNCHANGED <<millis, next_report_millis, chars, D0, ticks, reportFired,
                 sinceReport, reportGap, lastIn, lastNotifies, repeatIn,
                 lastValid, due, faultRun, faultsBefore>>

\* line 105, gate not taken
HeapSkip ==
  /\ pc = "heap_gate"
  /\ ~HeapDue(millis)
  /\ pc' = NextStep(pc)
  /\ UNCHANGED <<millis, next_heap_millis, next_report_millis, chars, D0,
                 events, observers>>

Gates ==
  \/ \E rawTemp \in RawTemps, rawHum \in RawHums, pin \in PinLevels :
        ReportFire(rawTemp, rawHum, pin)
  \/ ReportSkip
  \/ HeapFire
  \/ HeapSkip

Next ==
  \/ (ticks < MaxTicks /\ \E dt \in TickGaps : Poll(dt))
  \/ Gates

Spec == Init /\ [][Next]_vars

\* the sketch's loop() is called forever and every tick takes time
LiveInit == InitAt(LiveBootClocks)

LiveNext ==
  \/ \E dt \in LiveTickGaps(millis) : Poll(dt)
  \/ Gates

LiveSpec == LiveInit /\ [][LiveNext]_vars /\ WF_vars(LiveNext)

(***************************************************************************)
(* Observations on the calls of the current tick.                          *)
(***************************************************************************)
EventsWhere(P(_)) == {i \in 1..Len(events) : P(events[i])}

IsEnvPublish(e) == /\ (IsNotify(e) \/ IsWrite(e))
                   /\ e.arg \in {"cha_temperature", "cha_humidity"}

IsOccNotify(e) == IsNotify(e) /\ e.arg = "cha_occupancy_detected"

IsPinRead(e) == e.op = "digitalRead"

IsReportEntry(e) == e.op = "dht.getTemperature"

IsSensorRead(e) == e.op \in {"dht.getTemperature", "dht.getHumidity"}

IsReportCall(e) ==
  \/ IsSensorRead(e)
  \/ e.op \in {"digitalRead", "digitalWrite", "assign",
               "homekit_characteristic_notify", "Serial.println"}
  \/ (e.op = "LOG_D" /\ e.arg # "Free heap")

InvalidReport == reportFired /\ (isnan(lastIn.temp) \/ isnan(lastIn.hum))

ValidReport == reportFired /\ ~isnan(lastIn.temp) /\ ~isnan(lastIn.hum)

DiagnosticLog ==
  << Event("arduino_homekit_connected_clients_count", "", NoValue),
     Event("LOG_D", "Free heap", NoValue) >>

(***************************************************************************)
(* C1: the report fires at most once per tick, and when it fires, at least *)
(* REPORTING_TIME_MS (2000 ms) have elapsed since the report before it,    *)
(* for every value of the uint32 clock, wrap included.                     *)
(***************************************************************************)
C1_ReportRateLimited ==
  /\ Cardinality(EventsWhere(IsReportEntry)) <= 1
  /\ (reportFired /\ reportGap # Never) => reportGap >= REPORTING_TIME_MS

(***************************************************************************)
(* C2: between two consecutive diagnostic log lines at least SHOW_HEAP_MS  *)
(* (10000 ms) of clock time elapse.                                        *)
(***************************************************************************)
C2_HeapLogRateLimited ==
  (heapFired /\ heapGap # Never) => heapGap >= SHOW_HEAP_MS

(***************************************************************************)
(* C3: a report whose temperature or humidity read is NaN neither writes   *)
(* nor notifies the temperature or the humidity characteristic, and still  *)
(* notifies the occupancy characteristic.                                  *)
(***************************************************************************)
C3_InvalidSkipsEnvironment ==
  InvalidReport =>
    /\ EventsWhere(IsEnvPublish) = {}
    /\ EventsWhere(IsOccNotify) # {}

C3_Witness ==
  /\ InvalidReport
  /\ isnan(lastIn.temp) /\ ~isnan(lastIn.hum)
  /\ EventsWhere(IsOccNotify) # {}

(***************************************************************************)
(* C4: every report, valid or not, issues exactly one occupancy notify,    *)
(* whose payload is the boolean read from the occupancy pin in that same   *)
(* report.                                                                 *)
(***************************************************************************)
C4_OccupancyAlwaysNotified ==
  reportFired =>
    /\ Cardinality(EventsWhere(IsOccNotify)) = 1
    /\ Cardinality(EventsWhere(IsPinRead)) = 1
    /\ \A i \in EventsWhere(IsOccNotify), j \in EventsWhere(IsPinRead) :
         /\ j < i
         /\ events[i].val = events[j].val
         /\ events[i].val = BoolValue(lastIn.pin # 0)

C4_Witness ==
  /\ InvalidReport
  /\ lastIn.pin = HIGH
  /\ cha_occupancy_detected = TRUE
  /\ \E i \in EventsWhere(IsOccNotify) : events[i].val = BoolValue(TRUE)

(***************************************************************************)
(* C5: a tick in which only the diagnostic deadline has elapsed reads no   *)
(* sensor and no pin, writes no pin and writes or notifies no              *)
(* characteristic: after the poll it only emits the diagnostic log.        *)
(***************************************************************************)
C5_DiagnosticOnlyTick ==
  (due.heap /\ ~due.report) =>
    /\ EventsWhere(IsReportCall) = {}
    /\ ~reportFired
    /\ pc = "idle" =>
         events = << Event("arduino_homekit_loop", "", NoValue) >> \o DiagnosticLog

C5_Witness ==
  /\ due.heap /\ ~due.report
  /\ pc = "idle"
  /\ heapFired
  /\ lastIn.has
  /\ Len(events) = 3

(***************************************************************************)
(* C6: the device keeps reporting: while ticks keep occurring, after every *)
(* report another report eventually occurs, and after every diagnostic log *)
(* another diagnostic log eventually occurs.                               *)
(***************************************************************************)
C6_KeepsReporting ==
  /\ [](reportFired => []<>reportFired)
  /\ [](heapFired => []<>heapFired)

(***************************************************************************)
(* C7: a report with valid temperature and humidity issues exactly three   *)
(* notifies, temperature, humidity, occupancy, each carrying the value     *)
(* just written to its characteristic; the temperature payload is the raw  *)
(* temperature minus 3 and the humidity payload is the raw humidity.       *)
(***************************************************************************)
C7_ValidPublishesThree ==
  ValidReport =>
    LET n == Notifies(events)
    IN  /\ Len(n) = 3
        /\ n[1] = Event("homekit_characteristic_notify", "cha_temperature",
                        FloatValue(Float(lastIn.temp.v - 3)))
        /\ n[2] = Event("homekit_characteristic_notify", "cha_humidity",
                        FloatValue(lastIn.hum))
        /\ n[3] = Event("homekit_characteristic_notify", "cha_occupancy_detected",
                        BoolValue(lastIn.pin # 0))
        /\ \A i \in EventsWhere(IsNotify) :
             /\ IsWrite(events[i - 1])
             /\ events[i - 1].arg = events[i].arg
             /\ events[i - 1].val = events[i].val
        /\ cha_temperature = n[1].val.float_value
        /\ cha_humidity = n[2].val.float_value
        /\ cha_occupancy_detected = n[3].val.bool_value

C7_Witness ==
  /\ ValidReport
  /\ lastIn.temp = Float(21) /\ lastIn.hum = Float(40) /\ lastIn.pin = LOW
  /\ cha_temperature = Float(18)
  /\ Len(Notifies(events)) = 3

(***************************************************************************)
(* C8: the calibration offset is applied exactly once: the stored          *)
(* temperature is the raw temperature of the most recent valid report      *)
(* minus 3, however many reports preceded it.                              *)
(***************************************************************************)
C8_OffsetAppliedOnce ==
  lastValid.has => cha_temperature = Float(lastValid.temp.v - 3)

\* a second report with the same raw temperature leaves 18, not 15
C8_Witness ==
  /\ ValidReport
  /\ repeatIn
  /\ lastValid.has /\ lastValid.temp = Float(21)
  /\ cha_temperature = Float(18)

(***************************************************************************)
(* C9: a report whose raw temperature, raw humidity and pin level equal    *)
(* those of the report before it issues the same notify calls with the     *)
(* same payloads and leaves the characteristic values and D0 as they were. *)
(***************************************************************************)
C9_ReportIdempotent ==
  [][(pc = "report_gate" /\ reportFired' /\ lastIn.has /\ lastIn' = lastIn) =>
       /\ Notifies(events') = lastNotifies
       /\ lastNotifies' = lastNotifies
       /\ chars' = chars
       /\ D0' = D0]_vars

C9_Witness ==
  /\ reportFired
  /\ repeatIn
  /\ ~isnan(lastIn.temp) /\ ~isnan(lastIn.hum)
  /\ Notifies(events) = lastNotifies
  /\ Len(lastNotifies) = 3

(***************************************************************************)
(* C10: the diagnostic gate changes next_heap_millis only: it leaves       *)
(* next_report_millis, the three characteristic values and D0 unchanged;   *)
(* the report gate never changes next_heap_millis.                         *)
(***************************************************************************)
C10_DiagnosticFrame ==
  [][/\ pc = "heap_gate" => UNCHANGED <<next_report_millis, chars, D0>>
     /\ pc = "report_gate" => UNCHANGED next_heap_millis]_vars

C10_Witness ==
  /\ pc = "idle"
  /\ heapFired /\ reportFired
  /\ next_heap_millis = U32Add(millis, 5 * 1000)
  /\ next_report_millis = U32Add(millis, REPORTING_TIME_MS)
  /\ next_heap_millis # next_report_millis

(***************************************************************************)
(* C11: D0 mirrors the published occupancy: once a report has run, valid   *)
(* or not, D0 is HIGH exactly when cha_occupancy_detected is true, at the  *)
(* end of the report tick and between ticks.                               *)
(***************************************************************************)
C11_PinMirrorsOccupancy ==
  lastIn.has =>
    /\ (D0 = HIGH) <=> cha_occupancy_detected
    /\ cha_occupancy_detected <=> (lastIn.pin # 0)

\* an invalid report that raised both, seen between ticks
C11_Witness ==
  /\ pc = "idle"
  /\ InvalidReport
  /\ D0 = HIGH
  /\ cha_occupancy_detected

(***************************************************************************)
(* C12: the report gate fires in a tick exactly when the sampled clock t   *)
(* is strictly greater than next_report_millis; when it fires,             *)
(* next_report_millis becomes (t + 2000) mod 2^32 before the sensor is     *)
(* read or anything is published; a tick with t equal to the deadline,     *)
(* t = 0 at boot included, does not fire.                                  *)
(***************************************************************************)
IsDeadlineWrite(e) == IsWrite(e) /\ e.arg = "next_report_millis"

C12_ReportGate ==
  /\ pc # "report_gate" => (reportFired <=> due.report)
  /\ reportFired =>
       /\ next_report_millis = U32Add(millis, REPORTING_TIME_MS)
       /\ EventsWhere(IsDeadlineWrite) = {2}
       /\ \A i \in EventsWhere(IsReportCall) : i >= 2
  /\ (ticks > 0 /\ pc # "report_gate" /\ ~reportFired) =>
       ~U32Gt(millis, next_report_millis)
  /\ (millis = U32(0, 0) /\ reportGap = Never) => ~reportFired

\* a tick that sampled exactly the deadline left by the report before it
C12_Witness ==
  /\ pc = "idle"
  /\ lastIn.has
  /\ millis = next_report_millis
  /\ ~reportFired
  /\ ~due.report

(***************************************************************************)
(* C13: sensor faults are not latched and not retried: every report reads  *)
(* the temperature once and the humidity once, and it publishes both       *)
(* exactly when both of these readings are valid, however many of the      *)
(* reports right before it had failed.                                     *)
(***************************************************************************)
IsTempRead(e) == e.op = "dht.getTemperature"

IsHumRead(e) == e.op = "dht.getHumidity"

IsTempNotify(e) == IsNotify(e) /\ e.arg = "cha_temperature"

IsHumNotify(e) == IsNotify(e) /\ e.arg = "cha_humidity"

C13_FaultsNotLatched ==
  reportFired =>
    /\ Cardinality(EventsWhere(IsTempRead)) = 1
    /\ Cardinality(EventsWhere(IsHumRead)) = 1
    /\ \A n \in 0..FaultCap :
         (faultsBefore = n /\ ~isnan(lastIn.temp) /\ ~isnan(lastIn.hum)) =>
           /\ Cardinality(EventsWhere(IsTempNotify)) = 1
           /\ Cardinality(EventsWhere(IsHumNotify)) = 1
           /\ faultRun = 0
    /\ (isnan(lastIn.temp) \/ isnan(lastIn.hum)) =>
         EventsWhere(IsTempNotify) \cup EventsWhere(IsHumNotify) = {}

\* a valid report right after two failed ones
C13_Witness ==
  /\ ValidReport
  /\ faultsBefore = 2
  /\ EventsWhere(IsTempNotify) # {}
  /\ EventsWhere(IsHumNotify) # {}
  /\ cha_temperature = Float(lastIn.temp.v - 3)

(***************************************************************************)
(* C14: a report with a NaN temperature or humidity read leaves the stored *)
(* temperature and humidity unchanged: each always holds the value of the  *)
(* latest report with valid readings, or its initial value when there was  *)
(* none, and never NaN.                                                    *)
(***************************************************************************)
C14_InvalidKeepsStoredValues ==
  /\ ~isnan(cha_temperature)
  /\ ~isnan(cha_humidity)
  /\ cha_temperature = IF lastValid.has THEN Float(lastValid.temp.v - 3)
                                        ELSE Float(0)
  /\ cha_humidity = IF lastValid.has THEN lastValid.hum ELSE Float(0)

\* a failed temperature read after a valid report of 24 degrees
C14_Witness ==
  /\ InvalidReport
  /\ isnan(lastIn.temp) /\ ~isnan(lastIn.hum)
  /\ lastValid.has
  /\ cha_temperature = Float(21)
  /\ cha_humidity = Float(40)

(***************************************************************************)
(* C15: in every tick the accessory server is polled first, then the       *)
(* report gate is evaluated, then the diagnostic gate, both against the    *)
(* same clock sample t; in a tick where both deadlines have elapsed the    *)
(* whole report (sensor reads and all notifies) completes before the       *)
(* client count is queried and the diagnostic log is emitted.              *)
(***************************************************************************)
IsPoll(e) == e.op = "arduino_homekit_loop"

IsDiagnosticCall(e) ==
  \/ e.op = "arduino_homekit_connected_clients_count"
  \/ (e.op = "LOG_D" /\ e.arg = "Free heap")

C15_ReportBeforeDiagnostic ==
  /\ ticks > 0 => EventsWhere(IsPoll) = {1}
  /\ pc = "report_gate" => Len(events) = 1
  /\ pc = "heap_gate" => EventsWhere(IsDiagnosticCall) = {}
  /\ \A i \in EventsWhere(IsReportCall), j \in EventsWhere(IsDiagnosticCall) :
       i < j
  /\ (reportFired /\ heapFired) =>
       /\ SubSeq(events, Len(events) - 1, Len(events)) = DiagnosticLog
       /\ EventsWhere(IsOccNotify) # {}
       /\ next_report_millis = U32Add(millis, REPORTING_TIME_MS)
       /\ next_heap_millis = U32Add(millis, 5 * 1000)
  /\ (ticks > 0 /\ pc = "idle") =>
       /\ reportFired <=> due.report
       /\ heapFired <=> due.heap

\* the first tick after boot, both deadlines still 0 and t > 0
C15_Witness ==
  /\ pc = "idle"
  /\ ticks = 1
  /\ reportFired /\ heapFired
  /\ ValidReport
  /\ reportGap = Never /\ heapGap = Never
  /\ events[Len(events)] = Event("LOG_D", "Free heap", NoValue)
  /\ Len(Notifies(events)) = 3

====
